---- MODULE Spec2Model ----
(***************************************************************************)
(* A model of sentence_splitter.py: a command-line program that reads one  *)
(* document per line from a named file or from standard input, hands the   *)
(* lines to a sentence-segmentation pipeline and prints one sentence per   *)
(* line, with an empty line after each document.                           *)
(*                                                                         *)
(* Text is modelled as sequences of code points, the input as a sequence   *)
(* of bytes, and the decoding, the line iteration, str.strip() and the     *)
(* truthiness test of the walrus expression are computed as Python         *)
(* computes them.  The segmentation model itself is external to the        *)
(* program: it is represented by two deterministic rule-based segmenters   *)
(* (see Sentences), and by a failure it may raise at any request for the   *)
(* next document.                                                          *)
(***************************************************************************)
EXTENDS Integers, Sequences, FiniteSets, TLC

VARIABLES
    argv,           \* the command line: each option absent ({}) or given ({v})
    env,            \* the host: GPU present, processor cores, stdin's encoding
    content,        \* the bytes of the input (of doc.txt and of standard input)
    pc,             \* the statement of main() about to run
    args,           \* the Namespace parse_args() returns
    line_count,     \* {} for None, {n} for n
    use_gpu,        \* {} before it is assigned, then {TRUE} or {FALSE}
    n_process,      \* {} before it is assigned, then {n}
    nlp,            \* "None" before spacy.load, then the loaded model's name
    count_file,     \* the handle get_file_line_count opens
    file,           \* the stream smart_open yields
    closes,         \* how many times smart_open closed the named file
    stdin_closed,   \* whether sys.stdin was closed
    pending,        \* texts the pipeline has read and not yet yielded
    docs_consumed,  \* documents the for loop has received
    doc,            \* the current document's sentences (doc.sents)
    sents,          \* how many of them the inner loop has visited
    out,            \* the lines written to standard output
    exit_code,      \* {} while running, then {code}
    error,          \* the exception that ended the run, "" for none
    steps,          \* the statements of main() started so far, in order
    run,            \* 1 for the first invocation, 2 for a repeated one
    prev            \* what the first invocation left, for a repeated one

vars == << argv, env, content, pc, args, line_count, use_gpu, n_process, nlp,
           count_file, file, closes, stdin_closed, pending, docs_consumed,
           doc, sents, out, exit_code, error, steps, run, prev >>

----------------------------------------------------------------------------
(* Bounds *)

MaxBytes == 4
MaxCores == 2
MaxProcs == 2
MaxBuffer == 2

----------------------------------------------------------------------------
(* Small helpers *)

MinOf(S) == CHOOSE x \in S : \A y \in S : x <= y

Min2(a, b) == IF a <= b THEN a ELSE b

The(s) == CHOOSE x \in s : TRUE

----------------------------------------------------------------------------
(* Text: bytes, decoding, lines, whitespace *)

\* line feed, space, full stop, and the two bytes C3 A9: "e acute" in UTF-8,
\* two letters in Latin-1
ByteAlphabet == {10, 32, 46, 169, 195}

Encodings == {"utf-8", "latin-1"}

\* UTF-8, strict: one-byte and two-byte sequences; anything else is an error
RECURSIVE DecodeUtf8(_)
DecodeUtf8(bs) ==
    IF bs = <<>> THEN [ok |-> TRUE, text |-> <<>>]
    ELSE IF Head(bs) < 128
    THEN LET r == DecodeUtf8(Tail(bs))
         IN  [ok |-> r.ok, text |-> <<Head(bs)>> \o r.text]
    ELSE IF Head(bs) \in 194..223 /\ Len(bs) >= 2 /\ bs[2] \in 128..191
    THEN LET r == DecodeUtf8(SubSeq(bs, 3, Len(bs)))
         IN  [ok |-> r.ok,
              text |-> <<(Head(bs) - 192) * 64 + (bs[2] - 128)>> \o r.text]
    ELSE [ok |-> FALSE, text |-> <<>>]

\* Latin-1: every byte is the code point of the same number
DecodeLatin1(bs) == [ok |-> TRUE, text |-> bs]

Decode(encoding, bs) ==
    IF encoding = "utf-8" THEN DecodeUtf8(bs) ELSE DecodeLatin1(bs)

\* s cut after each occurrence of d; a last piece without d is kept
RECURSIVE SplitAfter(_, _)
SplitAfter(s, d) ==
    IF s = <<>> THEN <<>>
    ELSE LET idx == {i \in 1..Len(s) : s[i] = d}
         IN  IF idx = {} THEN <<s>>
             ELSE LET m == MinOf(idx)
                  IN  <<SubSeq(s, 1, m)>> \o SplitAfter(SubSeq(s, m + 1, Len(s)), d)

\* iterating a text file: one item per line, each with its line feed
ReadLines(bs) == SplitAfter(bs, 10)

\* str.isspace() for one code point
IsSpace(c) == c \in {9, 10, 11, 12, 13, 28, 29, 30, 31, 32, 133, 160}

RECURSIVE LStrip(_)
LStrip(s) == IF s # <<>> /\ IsSpace(Head(s)) THEN LStrip(Tail(s)) ELSE s

RECURSIVE RStrip(_)
RStrip(s) ==
    IF s # <<>> /\ IsSpace(s[Len(s)]) THEN RStrip(SubSeq(s, 1, Len(s) - 1)) ELSE s

StripLeftOnly(s) == LStrip(s)

\* str.strip()
Strip(s) == RStrip(LStrip(s))

----------------------------------------------------------------------------
(* The external segmentation model *)

ModelNames == {"en_core_web_sm", "xx_sent_ud_sm"}

IsBlank(s) == \A i \in 1..Len(s) : IsSpace(s[i])

\* doc.sents as texts.  Both models end a sentence after each full stop;
\* en_core_web_sm keeps a span that is only whitespace, xx_sent_ud_sm
\* yields no span for it (so a document may have no sentence at all).
Sentences(model, text) ==
    LET spans == SplitAfter(text, 46)
    IN  IF model = "en_core_web_sm" THEN spans
        ELSE SelectSeq(spans, LAMBDA s : ~IsBlank(s))

----------------------------------------------------------------------------
(* The command line and the host *)

Paths == {"-", "doc.txt", "missing.txt"}

\* the only named file that exists
ExistingPaths == {"doc.txt"}

UseGpuChoices == {"no", "prefer", "require"}

Absent == {}

OrDefault(option, default) == IF option = {} THEN default ELSE The(option)

\* the Namespace argparse builds: each option's value or its default
Namespace(a) ==
    [ path             |-> OrDefault(a.path, "-"),
      encoding         |-> OrDefault(a.encoding, "utf-8"),
      spacy_model_name |-> OrDefault(a.spacy_model_name, "en_core_web_sm"),
      buffer_size      |-> a.buffer_size,
      n_process        |-> OrDefault(a.n_process, -1),
      use_gpu          |-> OrDefault(a.use_gpu, "no") ]

NoOptions ==
    [ path |-> Absent, encoding |-> Absent, spacy_model_name |-> Absent,
      buffer_size |-> Absent, n_process |-> Absent, use_gpu |-> Absent ]

ChoicesAcceptAnything(a) == TRUE

\* argparse's choices=[...] test of --use-gpu
UseGpuAccepted(a) == a.use_gpu = {} \/ The(a.use_gpu) \in UseGpuChoices

NoHandle == [state |-> "none", pos |-> 0]

NoFile == [kind |-> "none", state |-> "none", pos |-> 0]

NoPrev == [pc |-> "none", path |-> "none", out |-> <<>>, line_count |-> {},
           closes |-> 0]

FixedOrder == << "parse_args", "line_count", "gpu", "n_process", "load",
                 "open", "print" >>

Final == {"done", "failed"}

InitWith(argvs, envs, contents) ==
    /\ argv \in argvs
    /\ env \in envs
    /\ content \in contents
    /\ pc = "parse_args"
    /\ args = Namespace(NoOptions)
    /\ line_count = {}
    /\ use_gpu = {}
    /\ n_process = {}
    /\ nlp = "None"
    /\ count_file = NoHandle
    /\ file = NoFile
    /\ closes = 0
    /\ stdin_closed = FALSE
    /\ pending = <<>>
    /\ docs_consumed = 0
    /\ doc = <<>>
    /\ sents = 0
    /\ out = <<>>
    /\ exit_code = {}
    /\ error = ""
    /\ steps = <<>>
    /\ run = 1
    /\ prev = NoPrev

\* an uncaught exception: traceback, exit status 1
Raise(exception) ==
    /\ pc' = "failed"
    /\ error' = exception
    /\ exit_code' = {1}

----------------------------------------------------------------------------
(* main(), statement by statement *)

\* args = parse_args()
ParseArgs ==
    /\ pc = "parse_args"
    /\ steps' = Append(steps, "parse_args")
    /\ IF UseGpuAccepted(argv)
       THEN /\ args' = Namespace(argv)
            /\ pc' = "count_open"
            /\ UNCHANGED << error, exit_code >>
       ELSE \* parser.error(): usage message, SystemExit(2)
            /\ pc' = "failed"
            /\ error' = "InvalidArgument"
            /\ exit_code' = {2}
            /\ UNCHANGED args
    /\ UNCHANGED << argv, env, content, line_count, use_gpu, n_process, nlp,
                    count_file, file, closes, stdin_closed, pending,
                    docs_consumed, doc, sents, out, run, prev >>

\* get_file_line_count: the test of "-" and the open()
GetFileLineCountOpen ==
    /\ pc = "count_open"
    /\ steps' = Append(steps, "line_count")
    /\ IF args.path = "-"
       THEN /\ line_count' = {}
            /\ pc' = "gpu"
            /\ UNCHANGED << count_file, error, exit_code >>
       ELSE IF args.path \in ExistingPaths
       THEN /\ count_file' = [state |-> "open", pos |-> 0]
            /\ pc' = "count_read"
            /\ UNCHANGED << line_count, error, exit_code >>
       ELSE /\ Raise("FileNotFoundError")
            /\ UNCHANGED << line_count, count_file >>
    /\ UNCHANGED << argv, env, content, args, use_gpu, n_process, nlp, file,
                    closes, stdin_closed, pending, docs_consumed, doc, sents, out,
                    run, prev >>

LineFeedCount(lines) == Cardinality({i \in 1..Len(lines) : lines[i][Len(lines[i])] = 10})

\* sum(1 for _ in file)
LineCount(lines) == Len(lines)

CountHandleLeftOpen(h, n) == [state |-> "open", pos |-> n]

\* leaving "with open(...) as file" after n lines were read
CountHandleAfter(h, n) == [state |-> "closed", pos |-> n]

\* get_file_line_count: the pass over the file, and the with block's exit
GetFileLineCountRead ==
    /\ pc = "count_read"
    /\ LET lines == ReadLines(content)
           readable == Decode(args.encoding, content).ok
       IN  /\ count_file' = CountHandleAfter(count_file, Len(lines))
           /\ IF readable
              THEN /\ line_count' = {LineCount(lines)}
                   /\ pc' = "gpu"
                   /\ UNCHANGED << error, exit_code >>
              ELSE /\ Raise("UnicodeDecodeError")
                   /\ UNCHANGED line_count
    /\ UNCHANGED << argv, env, content, args, use_gpu, n_process, nlp, file,
                    closes, stdin_closed, pending, docs_consumed, doc, sents, out,
                    steps, run, prev >>

\* the if/elif chain over args.use_gpu
ResolveGpu ==
    /\ pc = "gpu"
    /\ steps' = Append(steps, "gpu")
    /\ IF args.use_gpu = "no"
       THEN /\ use_gpu' = {FALSE}
            /\ pc' = "n_process"
            /\ UNCHANGED << error, exit_code >>
       ELSE IF args.use_gpu = "prefer"
       THEN \* spacy.prefer_gpu(): whether a GPU was activated
            /\ use_gpu' = {env.gpu}
            /\ pc' = "n_process"
            /\ UNCHANGED << error, exit_code >>
       ELSE IF args.use_gpu = "require"
       THEN \* spacy.require_gpu(): True, or it raises
            IF env.gpu
            THEN /\ use_gpu' = {TRUE}
                 /\ pc' = "n_process"
                 /\ UNCHANGED << error, exit_code >>
            ELSE /\ Raise("ExternalPipelineError")
                 /\ UNCHANGED use_gpu
       ELSE /\ Raise("ValueError")
            /\ UNCHANGED use_gpu
    /\ UNCHANGED << argv, env, content, args, line_count, n_process, nlp,
                    count_file, file, closes, stdin_closed, pending,
                    docs_consumed, doc, sents, out, run, prev >>

ProcessCountSwapped(gpu, requested, cores) ==
    IF requested = -1 THEN (IF gpu THEN cores ELSE 1) ELSE requested

\* (1 if use_gpu else multiprocessing.cpu_count()) if args.n_process == -1
\* else args.n_process
EffectiveProcessCount(gpu, requested, cores) ==
    IF requested = -1 THEN (IF gpu THEN 1 ELSE cores) ELSE requested

DeriveNProcess ==
    /\ pc = "n_process"
    /\ steps' = Append(steps, "n_process")
    /\ n_process' = {EffectiveProcessCount(The(use_gpu), args.n_process, env.cores)}
    /\ pc' = "load"
    /\ UNCHANGED << argv, env, content, args, line_count, use_gpu, nlp,
                    count_file, file, closes, stdin_closed, pending,
                    docs_consumed, doc, sents, out, exit_code, error, run, prev >>

\* nlp = spacy.load(args.spacy_model_name)
LoadModel ==
    /\ pc = "load"
    /\ steps' = Append(steps, "load")
    /\ IF args.spacy_model_name \in ModelNames
       THEN /\ nlp' = args.spacy_model_name
            /\ pc' = "open"
            /\ UNCHANGED << error, exit_code >>
       ELSE /\ Raise("ExternalPipelineError")
            /\ UNCHANGED nlp
    /\ UNCHANGED << argv, env, content, args, line_count, use_gpu, n_process,
                    count_file, file, closes, stdin_closed, pending,
                    docs_consumed, doc, sents, out, run, prev >>

SmartOpenKeepsOpenOnError(path, f, raised) ==
    IF path # "-" /\ ~raised
    THEN [file |-> [f EXCEPT !.state = "closed"], named |-> 1, stdin |-> FALSE]
    ELSE [file |-> f, named |-> 0, stdin |-> FALSE]

\* smart_open's finally clause, run when the with block is left normally
\* (raised = FALSE) or by an exception (raised = TRUE): the stream as it is
\* left, and what was closed
SmartOpenExit(path, f, raised) ==
    IF path # "-"
    THEN [file |-> [f EXCEPT !.state = "closed"], named |-> 1, stdin |-> FALSE]
    ELSE [file |-> f, named |-> 0, stdin |-> FALSE]

\* smart_open up to its yield
SmartOpenEnter ==
    /\ pc = "open"
    /\ steps' = Append(steps, "open")
    /\ IF args.path = "-"
       THEN \* mode is "r": sys.stdin, whatever the keyword arguments
            /\ file' = [kind |-> "stdin", state |-> "open", pos |-> 0]
            /\ pc' = "iterate"
            /\ UNCHANGED << error, exit_code >>
       ELSE IF args.path \in ExistingPaths
       THEN /\ file' = [kind |-> "named", state |-> "open", pos |-> 0]
            /\ pc' = "iterate"
            /\ UNCHANGED << error, exit_code >>
       ELSE /\ Raise("FileNotFoundError")
            /\ UNCHANGED file
    /\ UNCHANGED << argv, env, content, args, line_count, use_gpu, n_process,
                    nlp, count_file, closes, stdin_closed, pending,
                    docs_consumed, doc, sents, out, run, prev >>

\* the encoding the yielded stream decodes with: open()'s encoding argument
\* for a named file, the host's for sys.stdin
StreamEncoding == IF file.kind = "stdin" THEN env.stdin_encoding ELSE args.encoding

\* how many lines the pipeline reads when it has none left: batch_size texts
\* for each process (all that remain when batch_size is None: the library's
\* default exceeds every input considered here)
ReadAhead(buffer_size, processes, remaining) ==
    IF buffer_size = {} THEN remaining
    ELSE Min2(The(buffer_size) * (IF processes > 1 THEN processes ELSE 1), remaining)

\* leaving the with block: the finally clause's effect on the handles
LeaveWith(raised) ==
    LET left == SmartOpenExit(args.path, file, raised)
    IN  /\ file' = left.file
        /\ closes' = closes + left.named
        /\ stdin_closed' = (stdin_closed \/ left.stdin)

\* the for statement asks the pipeline for the next document
PipeNext ==
    /\ pc = "iterate"
    /\ LET lines == ReadLines(content)
           remaining == Len(lines) - file.pos
           k == IF pending = <<>>
                THEN ReadAhead(args.buffer_size, The(n_process), remaining)
                ELSE 0
           batch == [i \in 1..k |-> Decode(StreamEncoding, lines[file.pos + i])]
       IN  IF pending = <<>> /\ remaining = 0
           THEN \* StopIteration: the with block is left, main() returns
                /\ LeaveWith(FALSE)
                /\ pc' = "done"
                /\ exit_code' = {0}
                /\ UNCHANGED << pending, docs_consumed, doc, sents, error >>
           ELSE IF \E i \in 1..k : ~batch[i].ok
           THEN /\ LeaveWith(TRUE)
                /\ Raise("UnicodeDecodeError")
                /\ UNCHANGED << pending, docs_consumed, doc, sents >>
           ELSE LET buffer == pending \o [i \in 1..k |-> batch[i].text]
                IN  /\ file' = [file EXCEPT !.pos = @ + k]
                    /\ pending' = Tail(buffer)
                    /\ doc' = Sentences(nlp, Head(buffer))
                    /\ sents' = 0
                    /\ docs_consumed' = docs_consumed + 1
                    /\ pc' = "sents"
                    /\ UNCHANGED << closes, stdin_closed, error, exit_code >>
    /\ UNCHANGED << argv, env, content, args, line_count, use_gpu, n_process,
                    nlp, count_file, out, steps, run, prev >>

PipeRaisesAfterBlank ==
    /\ pc = "iterate"
    /\ LeaveWith(TRUE)
    /\ Raise("ExternalPipelineError")
    /\ out' = Append(out, <<>>)
    /\ UNCHANGED << argv, env, content, args, line_count, use_gpu, n_process,
                    nlp, count_file, pending, docs_consumed, doc, sents,
                    steps, run, prev >>

\* the pipeline raises instead of yielding
PipeRaises ==
    /\ pc = "iterate"
    /\ LeaveWith(TRUE)
    /\ Raise("ExternalPipelineError")
    /\ UNCHANGED << argv, env, content, args, line_count, use_gpu, n_process,
                    nlp, count_file, pending, docs_consumed, doc, sents, out,
                    steps, run, prev >>

PrintedUnfiltered(text) == << Strip(text) >>

\* if sentence_text := sent.text.strip(): print(sentence_text)
PrintedFor(text) == IF Strip(text) # <<>> THEN << Strip(text) >> ELSE <<>>

BlankOnlyAfterSentences(sentences) == IF sentences = <<>> THEN <<>> ELSE << <<>> >>

\* print() after the inner loop
DocumentEnd(sentences) == << <<>> >>

Started(step) == IF step \in {steps[i] : i \in 1..Len(steps)} THEN steps ELSE Append(steps, step)

\* one pass of "for sent in doc.sents"
VisitSentence ==
    /\ pc = "sents"
    /\ sents < Len(doc)
    /\ sents' = sents + 1
    /\ out' = out \o PrintedFor(doc[sents + 1])
    /\ steps' = IF out' # out THEN Started("print") ELSE steps
    /\ UNCHANGED << argv, env, content, pc, args, line_count, use_gpu,
                    n_process, nlp, count_file, file, closes, stdin_closed,
                    pending, docs_consumed, doc, exit_code, error, run, prev >>

\* doc.sents is exhausted
EndDocument ==
    /\ pc = "sents"
    /\ sents = Len(doc)
    /\ out' = out \o DocumentEnd(doc)
    /\ steps' = IF out' # out THEN Started("print") ELSE steps
    /\ pc' = "iterate"
    /\ UNCHANGED << argv, env, content, args, line_count, use_gpu, n_process,
                    nlp, count_file, file, closes, stdin_closed, pending,
                    docs_consumed, doc, sents, exit_code, error, run, prev >>

Next ==
    \/ ParseArgs
    \/ GetFileLineCountOpen
    \/ GetFileLineCountRead
    \/ ResolveGpu
    \/ DeriveNProcess
    \/ LoadModel
    \/ SmartOpenEnter
    \/ PipeNext
    \/ PipeRaises
    \/ VisitSentence
    \/ EndDocument

\* the program is run again on the same input and host, with the same
\* options, reading the input the other way (file instead of stdin or back)
Rerun ==
    /\ run = 1
    /\ pc \in Final
    /\ args.path \in {"-", "doc.txt"}
    /\ prev' = [pc |-> pc, path |-> args.path, out |-> out,
                line_count |-> line_count, closes |-> closes]
    /\ argv' = [argv EXCEPT !.path = IF args.path = "-" THEN {"doc.txt"} ELSE {"-"}]
    /\ run' = 2
    /\ pc' = "parse_args"
    /\ args' = Namespace(NoOptions)
    /\ line_count' = {}
    /\ use_gpu' = {}
    /\ n_process' = {}
    /\ nlp' = "None"
    /\ count_file' = NoHandle
    /\ file' = NoFile
    /\ closes' = 0
    /\ stdin_closed' = FALSE
    /\ pending' = <<>>
    /\ docs_consumed' = 0
    /\ doc' = <<>>
    /\ sents' = 0
    /\ out' = <<>>
    /\ exit_code' = {}
    /\ error' = ""
    /\ steps' = <<>>
    /\ UNCHANGED << env, content >>

NextPair == Next \/ Rerun

----------------------------------------------------------------------------
(* Inputs and specifications *)

AllContents == UNION {[1..n -> ByteAlphabet] : n \in 0..MaxBytes}

\* ". .", ".": two documents, the first of two sentences
Scenarios == { <<46, 32, 46, 10, 46, 10>> }

Options(paths, encodings, models, buffers, procs, gpus) ==
    [ path : paths, encoding : encodings, spacy_model_name : models,
      buffer_size : buffers, n_process : procs, use_gpu : gpus ]

\* runs over every small input, by file and by stdin
Init ==
    InitWith(Options({{"-"}, {"doc.txt"}}, {{}, {"latin-1"}},
                     {{}, {"xx_sent_ud_sm"}}, {{}, {1}, {MaxBuffer}},
                     {{}, {MaxProcs}}, {{}}),
             [gpu : {FALSE}, cores : {MaxCores}, stdin_encoding : {"utf-8"}],
             AllContents \cup Scenarios)

Spec == Init /\ [][Next]_vars

\* runs over every configuration of device and processes
InitConfig ==
    InitWith(Options({{p} : p \in Paths}, {{}}, {{}, {"no_such_model"}}, {{}},
                     {{}} \cup {{n} : n \in -1..MaxProcs},
                     {{}} \cup {{g} : g \in UseGpuChoices \cup {"always"}}),
             [gpu : BOOLEAN, cores : 1..MaxCores, stdin_encoding : {"utf-8"}],
             {<<>>, <<46, 10>>} \cup Scenarios)

SpecConfig == InitConfig /\ [][Next]_vars

\* pairs of runs over the same input, one by stdin and one by file
InitPair ==
    InitWith(Options({{"-"}, {"doc.txt"}}, {{}, {"latin-1"}}, {{}},
                     {{}, {1}}, {{}}, {{}}),
             [gpu : {FALSE}, cores : {MaxCores}, stdin_encoding : Encodings],
             AllContents)

SpecPair == InitPair /\ [][NextPair]_vars

----------------------------------------------------------------------------
(* Reference definitions used by the properties *)

MaxOf(S) == CHOOSE x \in S : \A y \in S : x >= y

\* s between its first and its last character that is not whitespace
Trimmed(s) ==
    LET solid == {i \in 1..Len(s) : ~IsSpace(s[i])}
    IN  IF solid = {} THEN <<>> ELSE SubSeq(s, MinOf(solid), MaxOf(solid))

BlankLines(lines) == Cardinality({i \in 1..Len(lines) : lines[i] = <<>>})

\* the lines of a file: one per line feed, and one more for a last line
\* that has none
NumLines(bs) ==
    Cardinality({i \in 1..Len(bs) : bs[i] = 10})
        + (IF bs # <<>> /\ bs[Len(bs)] # 10 THEN 1 ELSE 0)

EffectiveEncoding == IF args.path = "-" THEN env.stdin_encoding ELSE args.encoding

\* the sentences the pipeline returns for the i-th input line
DocSentences(i) ==
    Sentences(args.spacy_model_name, Decode(EffectiveEncoding, ReadLines(content)[i]).text)

\* a document's block: its sentences trimmed, the empty ones removed, then
\* one blank line
Block(i) ==
    LET S == DocSentences(i)
    IN  SelectSeq([j \in 1..Len(S) |-> Trimmed(S[j])], LAMBDA t : t # <<>>) \o << <<>> >>

RECURSIVE Blocks(_)
Blocks(k) == IF k = 0 THEN <<>> ELSE Blocks(k - 1) \o Block(k)

IsPrefix(s, t) == Len(s) <= Len(t) /\ \A i \in 1..Len(s) : s[i] = t[i]

BadUseGpu == argv.use_gpu # {} /\ argv.use_gpu \cap UseGpuChoices = {}

----------------------------------------------------------------------------
(* Properties *)

C2_OutputIsBlocks ==
    pc = "done" => out = Blocks(NumLines(content))

C2_Witness ==
    /\ pc = "done"
    /\ content = <<46, 32, 46, 10, 46, 10>>
    /\ out = << <<46>>, <<46>>, <<>>, <<46>>, <<>> >>

\* C3: at every point, every line written is a blank line or a sentence
\* line that is not empty and neither starts nor ends with whitespace, and
\* the blank lines are exactly the documents fully emitted, so never more
\* than the documents consumed.
C3_LinesAreTrimmedSentences ==
    /\ \A i \in 1..Len(out) :
          out[i] = <<>> \/ (~IsSpace(out[i][1]) /\ ~IsSpace(out[i][Len(out[i])]))
    /\ BlankLines(out) = docs_consumed - (IF pc = "sents" THEN 1 ELSE 0)
    /\ BlankLines(out) <= docs_consumed

C3_Witness ==
    /\ pc = "sents"
    /\ sents = Len(doc)
    /\ \E j \in 1..Len(doc) : IsBlank(doc[j])
    /\ \E j \in 1..Len(doc) : ~IsBlank(doc[j]) /\ IsSpace(doc[j][1])
    /\ BlankLines(out) = docs_consumed - 1
    /\ Len(out) = 2

\* C4: a named file smart_open opened is open inside the with block and
\* closed exactly once when the block is left, normally or by an error,
\* which still ends the run; sys.stdin is yielded for "-" and never closed.
C4_ClosedExactlyOnce ==
    /\ stdin_closed = FALSE
    /\ file.kind = "stdin" => (args.path = "-" /\ file.state = "open" /\ closes = 0)
    /\ file.kind = "named" =>
          /\ args.path # "-"
          /\ pc \in {"iterate", "sents"} => (file.state = "open" /\ closes = 0)
          /\ pc \in Final => (file.state = "closed" /\ closes = 1)
    /\ (pc = "failed" /\ file.kind # "none") => (exit_code = {1} /\ error # "")

C4_Witness ==
    /\ pc = "failed"
    /\ error = "ExternalPipelineError"
    /\ file.kind = "named"
    /\ file.state = "closed"
    /\ closes = 1
    /\ pending # <<>>

\* C5: the process count handed to the pipeline is --n-process when that is
\* not -1; otherwise 1 on a GPU (require, or prefer with a GPU present) and
\* the number of cores on the CPU (no, or prefer without a GPU).
C5_EffectiveProcessCount ==
    n_process # {} =>
        LET onGpu == args.use_gpu = "require" \/ (args.use_gpu = "prefer" /\ env.gpu)
            onCpu == args.use_gpu = "no" \/ (args.use_gpu = "prefer" /\ ~env.gpu)
        IN  /\ onGpu # onCpu
            /\ args.n_process = OrDefault(argv.n_process, -1)
            /\ args.n_process # -1 => n_process = {args.n_process}
            /\ (args.n_process = -1 /\ onGpu) => n_process = {1}
            /\ (args.n_process = -1 /\ onCpu) => n_process = {env.cores}

C5_Witness ==
    /\ pc = "sents"
    /\ n_process = {1}
    /\ argv.n_process = {}
    /\ args.use_gpu = "prefer"
    /\ env.gpu
    /\ env.cores = 2

\* C6: with a --use-gpu value outside {no, prefer, require} the run ends in
\* argument parsing with a non-zero exit: the line counter never opens the
\* file, the input stream is never opened and nothing is written.
C6_BadUseGpuFailsInParsing ==
    BadUseGpu =>
        /\ pc \in {"parse_args", "failed"}
        /\ pc = "failed" => (error = "InvalidArgument" /\ exit_code # {} /\ exit_code # {0})
        /\ IsPrefix(steps, << "parse_args" >>)
        /\ count_file = NoHandle
        /\ file = NoFile
        /\ line_count = {}
        /\ out = <<>>

C6_Witness ==
    /\ pc = "failed"
    /\ argv.use_gpu = {"always"}
    /\ argv.path = {"doc.txt"}
    /\ exit_code = {2}

\* C7: a completed run reading the input from standard input and a
\* completed run reading the same bytes from a named file, with the same
\* other options on the same host, write the same lines.
C7_StdinAndFileAgree ==
    (run = 2 /\ pc = "done" /\ prev.pc = "done") => out = prev.out

\* C8: get_file_line_count returns the exact number of lines for a named
\* file and None for "-" without reading anything; its handle is its own,
\* closed before it returns, and the stream opened afterwards starts at the
\* first line and yields every line.
C8_LineCountIsExactAndIndependent ==
    /\ (args.path = "-" /\ pc \notin {"parse_args", "count_open"}) =>
          (line_count = {} /\ count_file = NoHandle)
    /\ (args.path # "-" /\ Len(steps) >= 3) =>
          (line_count = {NumLines(content)} /\ count_file.state = "closed")
    /\ count_file.state = "open" => pc = "count_read"
    /\ pc \in {"parse_args", "count_open", "count_read", "gpu", "n_process", "load", "open"} =>
          (file = NoFile /\ pending = <<>> /\ docs_consumed = 0)
    /\ (pc = "iterate" /\ docs_consumed = 0) => file.pos = 0
    /\ pc = "done" =>
          (docs_consumed = NumLines(content) /\ file.pos = NumLines(content))

C8_Witness ==
    /\ pc = "done"
    /\ args.path = "doc.txt"
    /\ content # <<>>
    /\ content[Len(content)] # 10
    /\ line_count = {2}
    /\ docs_consumed = 2

\* C9: when the pipeline fails after k documents, the run ends with a
\* non-zero exit and takes no further step; the output is exactly the
\* blocks of those k documents, with nothing after them, and a named input
\* file is closed.
C9_FailureKeepsEmittedBlocks ==
    (pc = "failed" /\ file.kind # "none") =>
        /\ out = Blocks(docs_consumed)
        /\ BlankLines(out) = docs_consumed
        /\ exit_code = {1}
        /\ error \in {"ExternalPipelineError", "UnicodeDecodeError"}
        /\ file.kind = "named" => (file.state = "closed" /\ closes = 1)
        /\ ~ENABLED Next

C9_Witness ==
    /\ pc = "failed"
    /\ error = "ExternalPipelineError"
    /\ file.kind = "named"
    /\ file.state = "closed"
    /\ docs_consumed = 1
    /\ NumLines(content) = 2
    /\ Len(out) = 2

\* C10: main() runs parse_args, line count, GPU, process count, model load,
\* open, print in this order; nothing is written before all the earlier
\* steps succeeded, a missing named path fails in the line counter before
\* the GPU is resolved or the model loaded, and the counting handle is
\* closed before the processing handle is opened.
C10_FixedOrder ==
    /\ IsPrefix(steps, FixedOrder)
    /\ out # <<>> =>
          /\ steps = FixedOrder
          /\ use_gpu # {}
          /\ n_process # {}
          /\ nlp # "None"
          /\ file.kind # "none"
    /\ (args.path \notin ExistingPaths \cup {"-"} /\ pc \notin {"parse_args", "count_open"}) =>
          /\ pc = "failed"
          /\ error = "FileNotFoundError"
          /\ steps = << "parse_args", "line_count" >>
          /\ use_gpu = {}
          /\ nlp = "None"
    /\ ~(count_file.state = "open" /\ file.state = "open")
    /\ file.kind = "named" => count_file.state = "closed"

C10_Witness ==
    /\ pc = "done"
    /\ steps = FixedOrder
    /\ args.path = "doc.txt"
    /\ count_file.state = "closed"
    /\ file.state = "closed"
    /\ Len(out) = 5

====
